---- MODULE Spec2Model ----
(***************************************************************************)
(* MediScan Pro (src/app.js): resolution of a scanned or typed drug        *)
(* identifier against the local DRAP index with the OpenFDA fallback, the  *)
(* merge of the two into the displayed record, and the ADR report log kept *)
(* in localStorage.                                                        *)
(*                                                                         *)
(* Strings are sequences of one-character strings.  The JavaScript falsy   *)
(* values undefined, null, '' and 0 are modelled by the empty sequence     *)
(* (strings, arrays) and by 0 (numbers): every use the source makes of an  *)
(* optional field (||, &&, if, ?.) treats them alike.                      *)
(***************************************************************************)
EXTENDS Integers, Sequences, FiniteSets, TLC

VARIABLES
    file,          \* what DRAP_FILE holds on the server (environment)
    loadPc,        \* position of loadDrapLocal: "fetch", "json", "done"
    drapIndex,     \* let drapIndex: sequence of [k, d] in property order
    currentStream, \* let currentStream: 0 is null
    scanning,      \* let scanning
    camera,        \* the camera side of the event loop: calls of startCamera awaiting
                   \* getUserMedia, streams with live tracks, scheduled scanLoop
                   \* callbacks, pending resume timers, the buttons shown
    lastParsed,    \* let lastParsed
    nextId,        \* number of fetchAndRenderDrug invocations so far
    inflight,      \* the fetchAndRenderDrug invocations suspended at an await
    drugCard,      \* what #drugCard shows
    doseWarning,   \* #doseWarning: 0 hidden, else the reference max dose shown
    pBatch,        \* the value of the form field #p_batch
    storage,       \* localStorage[STORAGE_KEY], parsed: the report log
    now,           \* Date.now() as last read for a stored report
    historyList,   \* what #historyList shows
    lastOutput,    \* the last alert() raised or file offered for download
    probe          \* result of the last direct application of a pure function

vars == <<file, loadPc, drapIndex, currentStream, scanning, camera, lastParsed, nextId,
          inflight, drugCard, doseWarning, pBatch, storage, now, historyList,
          lastOutput, probe>>

(***************************************************************************)
(* Bounds of the model.                                                    *)
(***************************************************************************)
MaxCalls == 2
MaxReports == 2
MaxRecords == 2
MaxSynonyms == 1
MaxSingleCalls == 1
MaxReportCalls == 1
MaxDoseReports == 1
MaxClock == 1
MaxFields == 2
MaxClicks == 3
MaxScans == 1
MaxSegments == 2

(***************************************************************************)
(* Strings.                                                                *)
(***************************************************************************)
UpperAlpha == <<"A","B","C","D","E","F","G","H","I","J","K","L","M",
                "N","O","P","Q","R","S","T","U","V","W","X","Y","Z">>
LowerAlpha == <<"a","b","c","d","e","f","g","h","i","j","k","l","m",
                "n","o","p","q","r","s","t","u","v","w","x","y","z">>
Digits == <<"0","1","2","3","4","5","6","7","8","9">>

IsUpper(c) == \E i \in 1..Len(UpperAlpha) : UpperAlpha[i] = c
IsDigit(c) == \E i \in 1..Len(Digits) : Digits[i] = c
DigitVal(c) == (CHOOSE i \in 1..Len(Digits) : Digits[i] = c) - 1

\* String.prototype.toLowerCase
LowerChar(c) ==
    IF IsUpper(c) THEN LowerAlpha[CHOOSE i \in 1..Len(UpperAlpha) : UpperAlpha[i] = c]
    ELSE c
toLowerCase(s) == [i \in 1..Len(s) |-> LowerChar(s[i])]

\* String.prototype.includes: sub occurs in s as a contiguous run
includes(s, sub) ==
    \E i \in 0..(Len(s) - Len(sub)) :
        \A j \in 1..Len(sub) : s[i + j] = sub[j]

\* String.prototype.trim
RECURSIVE TrimLeft(_)
TrimLeft(s) == IF s # <<>> /\ Head(s) = " " THEN TrimLeft(Tail(s)) ELSE s
RECURSIVE TrimRight(_)
TrimRight(s) ==
    IF s # <<>> /\ s[Len(s)] = " " THEN TrimRight(SubSeq(s, 1, Len(s) - 1)) ELSE s
trim(s) == TrimRight(TrimLeft(s))

\* Array.prototype.join
RECURSIVE join(_, _)
join(arr, sep) ==
    IF arr = <<>> THEN <<>>
    ELSE IF Len(arr) = 1 THEN arr[1]
    ELSE arr[1] \o sep \o join(Tail(arr), sep)

\* Array.prototype.slice(0, n)
slice0(arr, n) == SubSeq(arr, 1, IF Len(arr) < n THEN Len(arr) ELSE n)

SeqsUpTo(S, n) == UNION {[1..m -> S] : m \in 0..n}

(***************************************************************************)
(* The local index.                                                        *)
(***************************************************************************)
\* A record of drap_drugs.json; an absent field is the empty value.
DrugRecord(name, manufacturer, batch, expiry, uses, adrs, dosage, maxDoseMg, synonyms) ==
    [name |-> name, manufacturer |-> manufacturer, batch |-> batch, expiry |-> expiry,
     uses |-> uses, adrs |-> adrs, dosage |-> dosage, maxDoseMg |-> maxDoseMg,
     synonyms |-> synonyms]

\* An optional record (a lookup's result, `local`): <<>> is null, <<d>> is d.
NoRecord == <<>>

HasKey(idx, key) == \E i \in 1..Len(idx) : idx[i].k = key

\* drapIndex[key] = d: an existing property keeps its place, a new one is added last
IndexPut(idx, key, d) ==
    IF HasKey(idx, key)
    THEN [i \in 1..Len(idx) |-> IF idx[i].k = key THEN [k |-> key, d |-> d] ELSE idx[i]]
    ELSE Append(idx, [k |-> key, d |-> d])

\* drapIndex[key] || null
IndexGet(idx, key) ==
    IF HasKey(idx, key)
    THEN <<idx[CHOOSE i \in 1..Len(idx) : idx[i].k = key].d>>
    ELSE NoRecord

RECURSIVE PutSynonyms(_, _, _)
PutSynonyms(idx, syns, d) ==
    IF syns = <<>> THEN idx
    ELSE PutSynonyms(IndexPut(idx, toLowerCase(Head(syns)), d), Tail(syns), d)

\* the body of arr.forEach in loadDrapLocal, for one record
IndexRecord(idx, d) ==
    PutSynonyms(IF d.name # <<>> THEN IndexPut(idx, toLowerCase(d.name), d) ELSE idx,
                d.synonyms, d)

RECURSIVE BuildFrom(_, _)
BuildFrom(idx, arr) ==
    IF arr = <<>> THEN idx ELSE BuildFrom(IndexRecord(idx, Head(arr)), Tail(arr))

BuildIndex(arr) == BuildFrom(<<>>, arr)

\* A null element of the dataset array: d.name of it throws a TypeError.
NullEntry == [null |-> TRUE]
IsNull(d) == DOMAIN d = {"null"}

\* arr.forEach throws part-way through the dataset
IndexingThrows(arr) == \E i \in 1..Len(arr) : IsNull(arr[i])

\* the index left when the error is caught with the records before the faulty
\* one already indexed, the catch block not emptying it
AfterIndexingError_KeepPartial(arr) ==
    BuildIndex(SubSeq(arr, 1, (CHOOSE i \in 1..Len(arr) :
                                  IsNull(arr[i]) /\ \A j \in 1..(i - 1) : ~IsNull(arr[j])) - 1))

\* catch(e){ ...; drapIndex = {}; }
AfterIndexingError(arr) == <<>>

\* drapIndex after `arr = await r.json()` has settled with the array arr
Indexed(arr) == IF IndexingThrows(arr) THEN AfterIndexingError(arr) ELSE BuildIndex(arr)

\* An integer-like property name ("0", "7", "500"): for-in visits these first,
\* in ascending numeric order, before the other names in insertion order.
IsArrayIndexKey(key) ==
    /\ key # <<>>
    /\ \A i \in 1..Len(key) : IsDigit(key[i])
    /\ (Len(key) > 1 => key[1] # "0")
    /\ Len(key) <= 9

RECURSIVE NumVal(_)
NumVal(key) ==
    IF key = <<>> THEN 0 ELSE 10 * NumVal(SubSeq(key, 1, Len(key) - 1)) + DigitVal(key[Len(key)])

\* position of entry i of the index in for-in order
ForInRank(idx, i) ==
    IF IsArrayIndexKey(idx[i].k)
    THEN Cardinality({j \in 1..Len(idx) :
            IsArrayIndexKey(idx[j].k) /\ NumVal(idx[j].k) < NumVal(idx[i].k)}) + 1
    ELSE Cardinality({j \in 1..Len(idx) : IsArrayIndexKey(idx[j].k)})
         + Cardinality({j \in 1..i : ~IsArrayIndexKey(idx[j].k)})

\* the entries of the index in the order `for(const k in drapIndex)` visits them
ForInOrder(idx) ==
    [r \in 1..Len(idx) |-> idx[CHOOSE i \in 1..Len(idx) : ForInRank(idx, i) = r]]

\* the condition of the substring phase, for the entry e and the lowercased name
SubstringHit(e, lname) ==
    \/ includes(e.k, lname)
    \/ (e.d.synonyms # <<>> /\ includes(toLowerCase(join(e.d.synonyms, <<" ">>)), lname))

\* the lookup running the substring loop first and the exact key only after it
LocalLookup_SubstringFirst(idx, name) ==
    LET lname == toLowerCase(name)
        ord   == ForInOrder(idx)
        hits  == {i \in 1..Len(ord) : SubstringHit(ord[i], lname)}
    IN  IF hits # {} THEN <<ord[CHOOSE i \in hits : \A j \in hits : i <= j].d>>
        ELSE IndexGet(idx, lname)

\* let local = drapIndex[name.toLowerCase()] || null; if(!local){ for(const k in ...) }
LocalLookup(idx, name) ==
    LET lname == toLowerCase(name)
        exact == IndexGet(idx, lname)
        ord   == ForInOrder(idx)
        hits  == {i \in 1..Len(ord) : SubstringHit(ord[i], lname)}
    IN  IF exact # NoRecord THEN exact
        ELSE IF hits = {} THEN NoRecord
        ELSE <<ord[CHOOSE i \in hits : \A j \in hits : i <= j].d>>

(***************************************************************************)
(* String constants of the source and of the scenarios.                    *)
(***************************************************************************)
kDrugName == <<"d","r","u","g","N","a","m","e">>
kName == <<"n","a","m","e">>
kProductName == <<"p","r","o","d","u","c","t","N","a","m","e">>
kBatch == <<"b","a","t","c","h">>
kLot == <<"l","o","t">>
kExpiry == <<"e","x","p","i","r","y">>
sUnknown == <<"U","n","k","n","o","w","n">>
sPanadol == <<"P","a","n","a","d","o","l">>
sParacetamol == <<"p","a","r","a","c","e","t","a","m","o","l">>
sParacetamolTab == <<"p","a","r","a","c","e","t","a","m","o","l"," ","5","0","0","m","g"," ","t","a","b">>
sParacet == <<"p","a","r","a","c","e","t">>
sPANADOL == <<"P","A","N","A","D","O","L">>
sAmoxicillin == <<"A","m","o","x","i","c","i","l","l","i","n">>
sBrufen == <<"B","r","u","f","e","n">>
sIbuprofen == <<"i","b","u","p","r","o","f","e","n">>
sAbbott == <<"A","b","b","o","t","t">>
sIbu == <<"i","b","u">>

(***************************************************************************)
(* parsePayload.                                                           *)
(*                                                                         *)
(* JSON.parse is modelled on the payloads a label carries: a flat object   *)
(* of string members, {"k":"v",...}.  Any other text is taken as not JSON; *)
(* a JSON number, string, array or null yields no name, batch or expiry    *)
(* either and continues on the same path.                                  *)
(***************************************************************************)
Quote == "\""

\* index of the first quote after position i, 0 if there is none
StrEnd(s, i) ==
    IF \E j \in (i + 1)..Len(s) : s[j] = Quote
    THEN CHOOSE j \in (i + 1)..Len(s) :
            s[j] = Quote /\ \A m \in (i + 1)..(j - 1) : s[m] # Quote
    ELSE 0

JsonFail == [ok |-> FALSE, members |-> <<>>]

\* the members from position i (the opening quote of a key) to the closing brace
RECURSIVE ParseMembers(_, _, _)
ParseMembers(s, i, acc) ==
    LET ke == StrEnd(s, i) IN
    IF i > Len(s) \/ s[i] # Quote \/ ke = 0 THEN JsonFail
    ELSE IF ke + 2 > Len(s) \/ s[ke + 1] # ":" \/ s[ke + 2] # Quote THEN JsonFail
    ELSE LET ve == StrEnd(s, ke + 2) IN
         IF ve = 0 \/ ve + 1 > Len(s) THEN JsonFail
         ELSE LET acc2 == Append(acc, [k |-> SubSeq(s, i + 1, ke - 1),
                                       v |-> SubSeq(s, ke + 3, ve - 1)])
              IN  IF s[ve + 1] = "}"
                  THEN IF ve + 1 = Len(s) THEN [ok |-> TRUE, members |-> acc2]
                       ELSE JsonFail
                  ELSE IF s[ve + 1] = "," THEN ParseMembers(s, ve + 2, acc2)
                  ELSE JsonFail

\* JSON.parse(raw)
JSONparse(raw) ==
    IF raw = <<"{", "}">> THEN [ok |-> TRUE, members |-> <<>>]
    ELSE IF Len(raw) >= 2 /\ raw[1] = "{" THEN ParseMembers(raw, 2, <<>>)
    ELSE JsonFail

\* o.key: the last member of that name, undefined (empty) if there is none
Member(o, key) ==
    LET at == {i \in 1..Len(o.members) : o.members[i].k = key}
    IN  IF at = {} THEN <<>>
        ELSE o.members[CHOOSE i \in at : \A j \in at : j <= i].v

\* a || b
Or(a, b) == IF a # <<>> THEN a ELSE b

StartsAt(s, p, pat) ==
    /\ p + Len(pat) - 1 <= Len(s)
    /\ \A j \in 1..Len(pat) : s[p + j - 1] = pat[j]

\* [A-Z0-9\-]
IsLotChar(c) == IsUpper(c) \/ IsDigit(c) \/ c = "-"

\* last index of the run of characters satisfying the class from position p on
RECURSIVE RunEnd(_, _)
RunEnd(s, p) == IF p <= Len(s) /\ IsLotChar(s[p]) THEN RunEnd(s, p + 1) ELSE p - 1

\* raw.match(/\(10\)([A-Z0-9\-]+?)(?=\(|$)/): the group, at position p
Lot10At(s, p) ==
    LET e == RunEnd(s, p + 4) IN
    /\ StartsAt(s, p, <<"(", "1", "0", ")">>)
    /\ e >= p + 4
    /\ (e = Len(s) \/ s[e + 1] = "(")

Match10(s) ==
    LET at == {p \in 1..Len(s) : Lot10At(s, p)}
    IN  IF at = {} THEN <<>>
        ELSE LET p == CHOOSE q \in at : \A r \in at : q <= r
             IN  SubSeq(s, p + 4, RunEnd(s, p + 4))

\* raw.match(/\(17\)(\d{6})/)
Exp17At(s, p) ==
    /\ StartsAt(s, p, <<"(", "1", "7", ")">>)
    /\ p + 9 <= Len(s)
    /\ \A j \in (p + 4)..(p + 9) : IsDigit(s[j])

Match17(s) ==
    LET at == {p \in 1..Len(s) : Exp17At(s, p)}
    IN  IF at = {} THEN <<>>
        ELSE LET p == CHOOSE q \in at : \A r \in at : q <= r
             IN  SubSeq(s, p + 4, p + 9)

Candidate(name, batch, expiry) == [name |-> name, batch |-> batch, expiry |-> expiry]

\* the parser applying the segment patterns on the structured path as well
parsePayload_ExtractAlways(raw) ==
    LET o      == JSONparse(raw)
        jname  == Or(Member(o, kDrugName), Or(Member(o, kName), Member(o, kProductName)))
        jbatch == IF o.ok THEN Or(Member(o, kBatch), Member(o, kLot)) ELSE <<>>
        jexp   == IF o.ok THEN Member(o, kExpiry) ELSE <<>>
    IN  Candidate(IF o.ok /\ jname # <<>> THEN jname ELSE raw,
                  Or(Match10(raw), jbatch), Or(Match17(raw), jexp))

parsePayload(raw) ==
    LET o      == JSONparse(raw)
        jname  == Or(Member(o, kDrugName), Or(Member(o, kName), Member(o, kProductName)))
        jbatch == Or(Member(o, kBatch), Member(o, kLot))
        jexp   == Member(o, kExpiry)
        m10    == Match10(raw)
        m17    == Match17(raw)
    IN  IF o.ok /\ jname # <<>> THEN Candidate(jname, jbatch, jexp)
        ELSE Candidate(raw,
                       IF m10 # <<>> THEN m10 ELSE IF o.ok THEN jbatch ELSE <<>>,
                       IF m17 # <<>> THEN m17 ELSE IF o.ok THEN jexp ELSE <<>>)

(***************************************************************************)
(* The OpenFDA responses and what fetchAndRenderDrug extracts from them.   *)
(***************************************************************************)
UsesCap == 6
DoseCap == 2
AdrsCap == 12

\* A member of a label result: absent, an array of strings, or a string.
JNone == [t |-> "none", a |-> <<>>, s |-> <<>>]
JArr(a) == [t |-> "arr", a |-> a, s |-> <<>>]
JStr(s) == [t |-> "str", a |-> <<>>, s |-> s]

\* an array is truthy even when empty, a string only when non-empty
Truthy(v) == v.t = "arr" \/ (v.t = "str" /\ v.s # <<>>)
OrVal(a, b) == IF Truthy(a) THEN a ELSE b

LabelResult(ind, purpose, description, dosage, supplied) ==
    [indications_and_usage |-> ind, purpose |-> purpose, description |-> description,
     dosage_and_administration |-> dosage, how_supplied |-> supplied]

\* j.results?.[0]?.f, for a body j whose results is a sequence of label results
Result0(j, f) == IF j.results = <<>> THEN JNone ELSE j.results[1][f]

\* usesFDA, from the body of the label response
ExtractUses(j) ==
    LET ind == OrVal(Result0(j, "indications_and_usage"),
                     OrVal(Result0(j, "purpose"),
                           OrVal(Result0(j, "description"), JArr(<<>>))))
    IN  IF ind.t = "arr" THEN slice0(ind.a, UsesCap)
        ELSE IF ind.t = "str" THEN <<ind.s>>
        ELSE <<>>

\* doseFDA, from the body of the label response
ExtractDose(j) ==
    LET dosage == OrVal(Result0(j, "dosage_and_administration"),
                        OrVal(Result0(j, "how_supplied"), JStr(<<>>)))
    IN  IF dosage.t = "arr" THEN join(slice0(dosage.a, DoseCap), <<" ">>)
        ELSE dosage.s

\* freq[t] = (freq[t] || 0) + 1 over a sequence of reaction terms
RECURSIVE CountTerms(_, _)
CountTerms(freq, terms) ==
    IF terms = <<>> THEN freq
    ELSE LET t == Head(terms)
             n == IF HasKey(freq, t) THEN IndexGet(freq, t)[1] ELSE 0
         IN  CountTerms(IF t # <<>> THEN IndexPut(freq, t, n + 1) ELSE freq, Tail(terms))

\* the frequency table over the events of je.results (each event: its
\* patient.reaction[].reactionmeddrapt, in order)
RECURSIVE CountEvents(_, _)
CountEvents(freq, events) ==
    IF events = <<>> THEN freq
    ELSE CountEvents(CountTerms(freq, Head(events)), Tail(events))

\* Object.entries(freq).sort((a,b)=>b[1]-a[1]): stable, by descending count
SortByCount(entries) ==
    LET rank(i) == Cardinality({j \in 1..Len(entries) : entries[j].d > entries[i].d})
                   + Cardinality({j \in 1..i : entries[j].d = entries[i].d})
    IN  [r \in 1..Len(entries) |-> entries[CHOOSE i \in 1..Len(entries) : rank(i) = r]]

\* adrsFDA, from the body of the event response
ExtractAdrs(je) ==
    LET sorted == SortByCount(ForInOrder(CountEvents(<<>>, je.results)))
        top    == slice0(sorted, AdrsCap)
    IN  [i \in 1..Len(top) |-> top[i].k]

(***************************************************************************)
(* The merged record and its rendering.                                    *)
(***************************************************************************)
\* local?.f: the field of the local record, undefined (empty) without one
LocalStr(local, f) == IF local = NoRecord THEN <<>> ELSE local[1][f]
LocalNum(local, f) == IF local = NoRecord THEN 0 ELSE local[1][f]

\* the fallback consulted whatever the local lookup returned
NeedsFallback_Always(local) == TRUE

\* the fallback is consulted only without a local record: if(!local)
NeedsFallback(local) == local = NoRecord

\* the merge with uses_official falling back on the local uses
Merged_UsesFromLocal(parsed, name, local, usesFDA, adrsFDA, doseFDA) ==
    [name            |-> Or(LocalStr(local, "name"), name),
     manufacturer    |-> Or(LocalStr(local, "manufacturer"), sUnknown),
     batch           |-> Or(parsed.batch, LocalStr(local, "batch")),
     expiry          |-> Or(parsed.expiry, LocalStr(local, "expiry")),
     uses_local      |-> LocalStr(local, "uses"),
     adrs_local      |-> LocalStr(local, "adrs"),
     uses_official   |-> Or(usesFDA, LocalStr(local, "uses")),
     adrs_reported   |-> adrsFDA,
     dosage_official |-> Or(LocalStr(local, "dosage"), doseFDA),
     maxDoseMg       |-> LocalNum(local, "maxDoseMg")]

\* the merge with the local batch and expiry taking precedence over the candidate's
Merged_LocalBatchFirst(parsed, name, local, usesFDA, adrsFDA, doseFDA) ==
    [name            |-> Or(LocalStr(local, "name"), name),
     manufacturer    |-> Or(LocalStr(local, "manufacturer"), sUnknown),
     batch           |-> Or(LocalStr(local, "batch"), parsed.batch),
     expiry          |-> Or(LocalStr(local, "expiry"), parsed.expiry),
     uses_local      |-> LocalStr(local, "uses"),
     adrs_local      |-> LocalStr(local, "adrs"),
     uses_official   |-> usesFDA,
     adrs_reported   |-> adrsFDA,
     dosage_official |-> Or(LocalStr(local, "dosage"), doseFDA),
     maxDoseMg       |-> LocalNum(local, "maxDoseMg")]

\* const merged = { ... }
Merged(parsed, name, local, usesFDA, adrsFDA, doseFDA) ==
    [name            |-> Or(LocalStr(local, "name"), name),
     manufacturer    |-> Or(LocalStr(local, "manufacturer"), sUnknown),
     batch           |-> Or(parsed.batch, LocalStr(local, "batch")),
     expiry          |-> Or(parsed.expiry, LocalStr(local, "expiry")),
     uses_local      |-> LocalStr(local, "uses"),
     adrs_local      |-> LocalStr(local, "adrs"),
     uses_official   |-> usesFDA,
     adrs_reported   |-> adrsFDA,
     dosage_official |-> Or(LocalStr(local, "dosage"), doseFDA),
     maxDoseMg       |-> LocalNum(local, "maxDoseMg")]

NoMerged == Merged(Candidate(<<>>, <<>>, <<>>), <<>>, NoRecord, <<>>, <<>>, <<>>)

(***************************************************************************)
(* The data the model runs on: dataset files, payloads, responses.         *)
(***************************************************************************)
rawJsonBrufen == <<"{","\"","n","a","m","e","\"",":","\"","B","r","u","f","e","n","\"",",","\"","b","a","t","c","h","\"",":","\"","B","7","\"","}">>
rawGs1 == <<"(","1","0",")","A","B","(","1","7",")","2","6","1","2","3","1">>
sB7 == <<"B","7">>
sL1 == <<"L","1">>
s2027 == <<"2","0","2","7">>
s400mg == <<"4","0","0","m","g">>
sPain == <<"p","a","i","n">>
sRash == <<"r","a","s","h">>
sNausea == <<"n","a","u","s","e","a">>
sAB == <<"A","B">>
s261231 == <<"2","6","1","2","3","1">>

\* {name:"Panadol", maxDoseMg:4000, synonyms:["paracetamol"]}
PanadolRecord ==
    DrugRecord(sPanadol, <<>>, <<>>, <<>>, <<>>, <<>>, <<>>, 4000, <<sParacetamol>>)
\* records with every field set
PanadolFullRecord ==
    DrugRecord(sPanadol, sAbbott, sAB, s261231, <<sPain>>, <<sRash>>, s400mg, 4000,
               <<sParacetamol>>)
BrufenRecord ==
    DrugRecord(sBrufen, sAbbott, sL1, s2027, <<sPain>>, <<sNausea>>, s400mg, 2400,
               <<sIbuprofen>>)

EmptyFile == <<>>
PanadolFile == <<PanadolRecord>>
PharmacyFile == <<BrufenRecord, PanadolFullRecord>>
\* a dataset with a null element behind a record
FaultyFile == <<PanadolRecord, NullEntry>>
DrapFiles == {EmptyFile, PanadolFile, PharmacyFile, FaultyFile}

\* what is typed into #searchInput or carried by a code
RawInputs == {sParacetamolTab, sParacet, sAmoxicillin, rawJsonBrufen}
TypedTexts == RawInputs \cup {<<" ">>}

Use(i) == <<"u", Digits[i + 1]>>
LabelBodyArr ==
    [results |-> <<LabelResult(JArr([i \in 1..(UsesCap + 1) |-> Use(i)]), JNone, JNone,
                               JArr([i \in 1..(DoseCap + 1) |-> Use(i)]), JNone)>>]
LabelBodyStr ==
    [results |-> <<LabelResult(JNone, JStr(sPain), JNone, JNone, JStr(s400mg))>>]
NoBody == [results |-> <<>>]
LabelBodies == {LabelBodyArr, LabelBodyStr}
EventBody1 == [results |-> <<<<sNausea, sRash>>, <<sRash>>>>]
EventBodies == {EventBody1}

(***************************************************************************)
(* The state.                                                              *)
(***************************************************************************)
\* One invocation of fetchAndRenderDrug.  id, raw, loaded, labelIssued,
\* eventIssued, labelRes, eventRes, labelBody and eventBody record what
\* happened to it; the code holds parsed, name, local and the three results.
NewCall(id, raw, parsed, name, local, loaded) ==
    [id |-> id, raw |-> raw, parsed |-> parsed, name |-> name, local |-> local,
     loaded |-> loaded, pc |-> "start",
     usesFDA |-> <<>>, adrsFDA |-> <<>>, doseFDA |-> <<>>,
     labelIssued |-> FALSE, eventIssued |-> FALSE,
     labelRes |-> "none", eventRes |-> "none",
     labelBody |-> NoBody, eventBody |-> NoBody]

NoCall == NewCall(0, <<>>, Candidate(<<>>, <<>>, <<>>), <<>>, NoRecord, FALSE)

\* #drugCard: "initial" (as served), "quick" (renderQuickCard), "noname"
\* ('No drug name detected.'), "full" (renderDrug, with the call that rendered)
Card(kind, title, d, call) == [kind |-> kind, title |-> title, d |-> d, call |-> call]
InitialCard == Card("initial", <<>>, NoMerged, NoCall)

\* drugCard.querySelector('.drug-title')?.textContent: no card that app.js
\* renders holds an element of class drug-title
DrugTitle(card) == <<>>

NoProbe == [name |-> <<>>, result |-> NoRecord]

\* The camera side before the first click: no startCamera call awaiting
\* getUserMedia, no stream with live tracks, no scanLoop callback scheduled with
\* requestAnimationFrame, no handleScanned call with scanLoop's .then attached,
\* no resume timer pending, #btnStart shown and #btnStop hidden.
NoCamera ==
    [starting |-> 0, live |-> {}, streams |-> 0, frames |-> 0, awaited |-> {},
     timers |-> 0, clicks |-> 0, btnStart |-> TRUE, btnStop |-> FALSE]

\* stopCamera(), on the camera side: the tracks of currentStream are stopped
Stopped(cam) ==
    [cam EXCEPT !.live = @ \ {currentStream}, !.btnStart = TRUE, !.btnStop = FALSE]

\* the promise of the handleScanned call id has resolved: scanLoop's .then
\* callback, if attached, runs setTimeout(..., 700)
Settled(cam, id) ==
    IF id \in cam.awaited
    THEN [cam EXCEPT !.awaited = @ \ {id}, !.timers = @ + 1]
    ELSE cam

InitCommon ==
    /\ loadPc = "fetch"
    /\ drapIndex = <<>>
    /\ currentStream = 0
    /\ scanning = FALSE
    /\ camera = NoCamera
    /\ lastParsed = Candidate(<<>>, <<>>, <<>>)
    /\ nextId = 0
    /\ inflight = {}
    /\ drugCard = InitialCard
    /\ doseWarning = 0
    /\ pBatch = <<>>
    /\ now = 0
    /\ historyList = <<>>
    /\ lastOutput = "none"
    /\ probe = NoProbe

Init ==
    /\ file \in DrapFiles
    /\ storage = <<>>
    /\ InitCommon

(***************************************************************************)
(* loadDrapLocal, then renderHistory (init).                               *)
(***************************************************************************)
\* arr.slice().reverse(), or 'No reports yet.' (empty)
renderHistory(arr) == [i \in 1..Len(arr) |-> arr[Len(arr) + 1 - i]]

LoadUnchanged ==
    UNCHANGED <<file, currentStream, scanning, camera, lastParsed, nextId, inflight, drugCard,
                doseWarning, pBatch, storage, now, lastOutput, probe>>

\* the end of loadDrapLocal with the index idx, and init's renderHistory()
LoadEnds(idx) ==
    /\ drapIndex' = idx
    /\ loadPc' = "done"
    /\ historyList' = renderHistory(storage)
    /\ LoadUnchanged

\* fetch(DRAP_FILE) rejects: catch, drapIndex = {}
LoadReject == loadPc = "fetch" /\ LoadEnds(<<>>)

\* !r.ok: drapIndex = {}
LoadNotOk == loadPc = "fetch" /\ LoadEnds(<<>>)

LoadOk ==
    /\ loadPc = "fetch"
    /\ loadPc' = "json"
    /\ UNCHANGED <<drapIndex, historyList>>
    /\ LoadUnchanged

\* r.json() rejects: catch, drapIndex = {}
LoadJsonReject == loadPc = "json" /\ LoadEnds(<<>>)

\* r.json() resolves: the records are indexed, or the error of a faulty one is caught
LoadJsonOk == loadPc = "json" /\ LoadEnds(Indexed(file))

(***************************************************************************)
(* handleScanned: stopCamera, parsePayload, renderQuickCard and            *)
(* fetchAndRenderDrug up to its first await.                               *)
(***************************************************************************)
\* renderDrug(d), by the call c
RenderDrug(c, d) ==
    /\ drugCard' = Card("full", d.name, d, c)
    /\ pBatch' = IF d.batch # <<>> THEN d.batch ELSE pBatch
    /\ doseWarning' = d.maxDoseMg

\* the end of fetchAndRenderDrug: merged, renderDrug(merged)
Finish(c) ==
    RenderDrug([c EXCEPT !.pc = "done"],
               Merged(c.parsed, c.name, c.local, c.usesFDA, c.adrsFDA, c.doseFDA))

\* renderQuickCard(parsed)
QuickCard(parsed) ==
    LET local == IndexGet(drapIndex, toLowerCase(parsed.name))
    IN  Card("quick", IF local # NoRecord THEN local[1].name ELSE parsed.name,
             NoMerged, NoCall)

\* handleScanned(raw), called with the camera side as cam; thenResume: the
\* caller is scanLoop, which attaches .then to the promise returned
HandleScanned(raw, cam0, thenResume) ==
    LET parsed == parsePayload(raw)
        name   == trim(parsed.name)
        local  == LocalLookup(drapIndex, name)
        c      == NewCall(nextId + 1, raw, parsed, name,
                          IF name = <<>> THEN NoRecord ELSE local, loadPc = "done")
        cam    == IF thenResume
                  THEN [Stopped(cam0) EXCEPT !.awaited = @ \cup {nextId + 1}]
                  ELSE Stopped(cam0)
    IN  /\ nextId < MaxCalls
        /\ nextId' = nextId + 1
        /\ scanning' = FALSE
        /\ currentStream' = 0
        /\ lastParsed' = parsed
        /\ IF name = <<>>
           THEN /\ drugCard' = Card("noname", <<>>, NoMerged, [c EXCEPT !.pc = "done"])
                /\ camera' = Settled(cam, nextId + 1)
                /\ UNCHANGED <<inflight, pBatch, doseWarning>>
           ELSE IF NeedsFallback(local)
           THEN /\ inflight' = inflight \cup {[c EXCEPT !.pc = "label", !.labelIssued = TRUE]}
                /\ drugCard' = QuickCard(parsed)
                /\ camera' = cam
                /\ UNCHANGED <<pBatch, doseWarning>>
           ELSE /\ Finish(c)
                /\ camera' = Settled(cam, nextId + 1)
                /\ UNCHANGED inflight
        /\ UNCHANGED <<file, loadPc, drapIndex, storage, now, historyList, lastOutput,
                       probe>>

\* btnSearch click, with text typed into #searchInput
Search(text) ==
    IF trim(text) = <<>>
    THEN /\ lastOutput' = "Enter search term"
         /\ UNCHANGED <<file, loadPc, drapIndex, currentStream, scanning, camera, lastParsed,
                        nextId, inflight, drugCard, doseWarning, pBatch, storage, now,
                        historyList, probe>>
    ELSE HandleScanned(trim(text), camera, FALSE)

(***************************************************************************)
(* fetchAndRenderDrug from its awaits on.                                  *)
(***************************************************************************)
FetchUnchanged ==
    UNCHANGED <<file, loadPc, drapIndex, currentStream, scanning, lastParsed, nextId,
                storage, now, historyList, lastOutput, probe>>

\* a failure of the label query ending the resolution without the event query
AfterLabelFailure_Abort == "done"

\* where the function continues after the label try block has caught a failure
AfterLabelFailure == "event"
\* where it continues after the event try block has caught a failure
AfterEventFailure == "done"

\* the continuation rendering the merged record each time an await settles,
\* also while the event query is still to be made or outstanding
Continue_RenderEarly(old, c, pc) ==
    /\ FetchUnchanged
    /\ inflight' = (inflight \ {old})
            \cup (IF pc = "done" THEN {}
                  ELSE IF pc = "event" THEN {[c EXCEPT !.pc = pc, !.eventIssued = TRUE]}
                  ELSE {[c EXCEPT !.pc = pc]})
    /\ camera' = (IF pc = "done" THEN Settled(camera, old.id) ELSE camera)
    /\ Finish(c)

\* continue the call c (already updated) at position pc
Continue(old, c, pc) ==
    /\ FetchUnchanged
    /\ IF pc = "done"
       THEN /\ inflight' = inflight \ {old}
            /\ camera' = Settled(camera, old.id)
            /\ Finish(c)
       ELSE /\ inflight' = (inflight \ {old})
                   \cup {IF pc = "event" THEN [c EXCEPT !.pc = pc, !.eventIssued = TRUE]
                         ELSE [c EXCEPT !.pc = pc]}
            /\ UNCHANGED <<drugCard, pBatch, doseWarning, camera>>

\* await fetch(label) rejects (network error): caught
LabelReject(c) ==
    /\ c.pc = "label"
    /\ Continue(c, [c EXCEPT !.labelRes = "failed"], AfterLabelFailure)

\* the label response is not 2xx: the block is skipped
LabelNotOk(c) ==
    /\ c.pc = "label"
    /\ Continue(c, [c EXCEPT !.labelRes = "failed"], "event")

LabelOk(c) ==
    /\ c.pc = "label"
    /\ Continue(c, c, "labelJson")

\* await r.json() rejects (malformed body), or the body is null: caught
LabelJsonReject(c) ==
    /\ c.pc = "labelJson"
    /\ Continue(c, [c EXCEPT !.labelRes = "failed"], AfterLabelFailure)

LabelJsonOk(c, j) ==
    /\ c.pc = "labelJson"
    /\ Continue(c, [c EXCEPT !.labelRes = "ok", !.labelBody = j,
                             !.usesFDA = ExtractUses(j), !.doseFDA = ExtractDose(j)],
                "event")

EventReject(c) ==
    /\ c.pc = "event"
    /\ Continue(c, [c EXCEPT !.eventRes = "failed"], AfterEventFailure)

EventNotOk(c) ==
    /\ c.pc = "event"
    /\ Continue(c, [c EXCEPT !.eventRes = "failed"], "done")

EventOk(c) ==
    /\ c.pc = "event"
    /\ Continue(c, c, "eventJson")

EventJsonReject(c) ==
    /\ c.pc = "eventJson"
    /\ Continue(c, [c EXCEPT !.eventRes = "failed"], AfterEventFailure)

EventJsonOk(c, je) ==
    /\ c.pc = "eventJson"
    /\ Continue(c, [c EXCEPT !.eventRes = "ok", !.eventBody = je,
                             !.adrsFDA = ExtractAdrs(je)],
                "done")

\* the settling of the awaits of the calls in flight
Fetches ==
    \/ \E c \in inflight : LabelReject(c)
    \/ \E c \in inflight : LabelNotOk(c)
    \/ \E c \in inflight : LabelOk(c)
    \/ \E c \in inflight : LabelJsonReject(c)
    \/ \E c \in inflight, j \in LabelBodies : LabelJsonOk(c, j)
    \/ \E c \in inflight : EventReject(c)
    \/ \E c \in inflight : EventNotOk(c)
    \/ \E c \in inflight : EventOk(c)
    \/ \E c \in inflight : EventJsonReject(c)
    \/ \E c \in inflight, je \in EventBodies : EventJsonOk(c, je)

Resolve ==
    \/ \E text \in TypedTexts : Search(text)
    \/ Fetches

\* the resolutions one after the other, MaxSingleCalls of them
ResolveSingle ==
    \/ \E text \in TypedTexts : nextId < MaxSingleCalls /\ Search(text)
    \/ Fetches

Load ==
    \/ LoadReject
    \/ LoadNotOk
    \/ LoadOk
    \/ LoadJsonReject
    \/ LoadJsonOk

Next == Load \/ Resolve

Spec == Init /\ [][Next]_vars

NextSingle == Load \/ ResolveSingle

SpecSingle == Init /\ [][NextSingle]_vars

(***************************************************************************)
(* The local lookup applied directly, over small datasets.                 *)
(***************************************************************************)
RecNames == {<<"a">>, <<"a", "7">>, <<"1", "7">>}
SynNames == {<<"B">>, <<"a", " ", "b">>}
ProbeNames == {<<"a">>, <<"A", "7">>, <<"7">>, <<"b">>, <<"a", " ", "b">>, <<"a", "7", "b">>}

LookupRecords ==
    {DrugRecord(n, <<>>, <<>>, <<>>, <<>>, <<>>, <<>>, 0, syns) :
        n \in RecNames, syns \in SeqsUpTo(SynNames, MaxSynonyms)}
LookupFiles == SeqsUpTo(LookupRecords, MaxRecords)

InitLookup ==
    /\ file \in LookupFiles
    /\ storage = <<>>
    /\ loadPc = "done"
    /\ drapIndex = BuildIndex(file)
    /\ currentStream = 0
    /\ scanning = FALSE
    /\ camera = NoCamera
    /\ lastParsed = Candidate(<<>>, <<>>, <<>>)
    /\ nextId = 0
    /\ inflight = {}
    /\ drugCard = InitialCard
    /\ doseWarning = 0
    /\ pBatch = <<>>
    /\ now = 0
    /\ historyList = <<>>
    /\ lastOutput = "none"
    /\ probe = NoProbe

\* the local lookup of fetchAndRenderDrug, applied to the name
Probe(name) ==
    /\ probe' = [name |-> name, result |-> LocalLookup(drapIndex, name)]
    /\ UNCHANGED <<file, loadPc, drapIndex, currentStream, scanning, camera, lastParsed, nextId,
                   inflight, drugCard, doseWarning, pBatch, storage, now, historyList,
                   lastOutput>>

NextLookup == \E name \in ProbeNames : Probe(name)

SpecLookup == InitLookup /\ [][NextLookup]_vars

(***************************************************************************)
(* Claims about the resolution (Spec).                                     *)
(***************************************************************************)
\* the calls the state knows: those in flight and the one that rendered last
Calls == inflight \cup (IF drugCard.call.id > 0 THEN {drugCard.call} ELSE {})
Rendered == drugCard.kind = "full"

\* C1: once every resolution started has finished, the record displayed is the
\* one of the resolution started last: an older resolution never renders after
\* a newer one.
C1_LatestResolutionDisplayed ==
    (inflight = {} /\ nextId >= 2) => drugCard.call.id = nextId

\* C2: with the dataset of the single Panadol record (loaded), resolving
\* "paracetamol 500mg tab" finds Panadol through its synonym: no fallback query
\* is made and the merged record has name Panadol, no official uses and
\* maxDoseMg 4000.
C2_PanadolBySynonym ==
    \A c \in Calls :
        (file = PanadolFile /\ c.loaded /\ c.raw = sParacetamolTab) =>
            /\ ~c.labelIssued /\ ~c.eventIssued
            /\ c.pc = "done"
            /\ drugCard.d.name = sPanadol
            /\ drugCard.d.uses_official = <<>>
            /\ drugCard.d.maxDoseMg = 4000

\* C5: a fallback query is issued only when the local lookup returned null, and
\* a resolution of a non-empty name that found no local record has issued both
\* queries by the time it renders.
C5_FallbackOnlyOnLocalMiss ==
    \A c \in Calls :
        /\ (c.labelIssued \/ c.eventIssued) => c.local = NoRecord
        /\ (c.pc = "done" /\ c.local = NoRecord /\ c.name # <<>>) =>
               (c.labelIssued /\ c.eventIssued)
        /\ (c.pc \in {"event", "eventJson"}) => (c.labelIssued /\ c.eventIssued)

C5_Witness ==
    /\ Rendered
    /\ drugCard.call.local = NoRecord
    /\ drugCard.call.labelIssued /\ drugCard.call.eventIssued
    /\ drugCard.call.loaded

\* C6: a merged record built with a local match has empty uses_official and
\* adrs_reported.
C6_NoFallbackFieldsOnLocalMatch ==
    Rendered /\ drugCard.call.local # NoRecord =>
        drugCard.d.uses_official = <<>> /\ drugCard.d.adrs_reported = <<>>

C6_Witness ==
    /\ Rendered
    /\ drugCard.call.local # NoRecord
    /\ drugCard.d.uses_local # <<>>

\* C7: the merged record follows the precedence: name local > candidate,
\* manufacturer local > "Unknown", batch and expiry candidate > local > empty,
\* dosage_official local > fallback > empty, maxDoseMg local or absent (0).
C7_MergePrecedence ==
    Rendered =>
        LET c == drugCard.call
            d == drugCard.d
            l == c.local
        IN  /\ d.name = IF l # NoRecord THEN l[1].name ELSE c.name
            /\ d.manufacturer = IF l # NoRecord /\ l[1].manufacturer # <<>>
                                THEN l[1].manufacturer ELSE sUnknown
            /\ d.batch = IF c.parsed.batch # <<>> THEN c.parsed.batch
                         ELSE IF l # NoRecord THEN l[1].batch ELSE <<>>
            /\ d.expiry = IF c.parsed.expiry # <<>> THEN c.parsed.expiry
                          ELSE IF l # NoRecord THEN l[1].expiry ELSE <<>>
            /\ d.dosage_official = IF l # NoRecord /\ l[1].dosage # <<>> THEN l[1].dosage
                                   ELSE c.doseFDA
            /\ d.maxDoseMg = IF l # NoRecord THEN l[1].maxDoseMg ELSE 0

\* a candidate batch that overrides the batch of the local match
C7_Witness ==
    /\ Rendered
    /\ drugCard.call.local # NoRecord
    /\ drugCard.call.parsed.batch # <<>>
    /\ drugCard.call.local[1].batch # <<>>
    /\ drugCard.call.local[1].batch # drugCard.call.parsed.batch

\* C8: a failure of one fallback query empties that query's fields only: the
\* other query is still made and its result kept, and the resolution renders.
\* With an empty dataset and both queries failing, "Amoxicillin" renders as
\* name Amoxicillin, manufacturer Unknown, every enrichment field empty.
C8_IndependentFailures ==
    /\ \A c \in inflight : c.labelRes = "failed" => (c.eventIssued /\ c.pc \in {"event", "eventJson"})
    /\ (Rendered /\ drugCard.call.local = NoRecord) =>
        LET c == drugCard.call
            d == drugCard.d
        IN  /\ c.labelIssued /\ c.eventIssued
            /\ c.labelRes \in {"failed", "ok"} /\ c.eventRes \in {"failed", "ok"}
            /\ c.labelRes = "failed" => (d.uses_official = <<>> /\ d.dosage_official = <<>>)
            /\ c.labelRes = "ok" => /\ d.uses_official = ExtractUses(c.labelBody)
                                    /\ d.dosage_official = ExtractDose(c.labelBody)
            /\ c.eventRes = "failed" => d.adrs_reported = <<>>
            /\ c.eventRes = "ok" => d.adrs_reported = ExtractAdrs(c.eventBody)
            /\ (file = EmptyFile /\ c.raw = sAmoxicillin
                    /\ c.labelRes = "failed" /\ c.eventRes = "failed") =>
                   d = Merged(Candidate(sAmoxicillin, <<>>, <<>>), sAmoxicillin, NoRecord,
                              <<>>, <<>>, <<>>)
                   /\ d.name = sAmoxicillin /\ d.manufacturer = sUnknown
                   /\ d.batch = <<>> /\ d.expiry = <<>> /\ d.uses_local = <<>>
                   /\ d.adrs_local = <<>> /\ d.maxDoseMg = 0

\* the usage query failed and the event query's result was kept
C8_Witness ==
    /\ Rendered
    /\ drugCard.call.labelRes = "failed"
    /\ drugCard.call.eventRes = "ok"
    /\ drugCard.d.adrs_reported # <<>>

\* the scenario: empty dataset, both queries failed
C8_WitnessAmoxicillin ==
    /\ Rendered
    /\ file = EmptyFile /\ drugCard.call.loaded
    /\ drugCard.call.raw = sAmoxicillin
    /\ drugCard.call.labelRes = "failed" /\ drugCard.call.eventRes = "failed"

\* C13: the step that ends loadDrapLocal after a failure (fetch rejected,
\* response not ok, body not JSON, error while indexing) leaves the index empty
\* and goes on to render the history; the index is never left partly built;
\* and a resolution of a non-empty name started after a failed load finds no
\* local record and issues the label query.
C13_LoadFailureNotFatal ==
    /\ [][(loadPc # "done" /\ loadPc' = "done") =>
            /\ historyList' = renderHistory(storage)
            /\ (loadPc = "fetch" \/ IndexingThrows(file)) => drapIndex' = <<>>
            /\ drapIndex' # <<>> => drapIndex' = BuildIndex(file)]_vars
    /\ [](\A c \in Calls :
            (loadPc = "done" /\ drapIndex = <<>> /\ c.loaded /\ c.name # <<>>) =>
                (c.local = NoRecord /\ c.labelIssued))

\* the dataset with the null element was fetched and read, and a resolution
\* started afterwards has rendered from the fallback path
C13_Witness ==
    /\ file = FaultyFile
    /\ loadPc = "done"
    /\ drapIndex = <<>>
    /\ Rendered
    /\ drugCard.call.loaded
    /\ drugCard.call.raw = sParacet
    /\ drugCard.call.local = NoRecord
    /\ drugCard.call.eventIssued

\* C16: the merged record of a resolution on the fallback path is rendered by
\* the step in which its event query settles, the label query having settled
\* before; no resolution that still has a query to make or outstanding has
\* rendered its merged record.
C16_MergeAfterBothSettled ==
    /\ [](\A c \in inflight :
            /\ c.local = NoRecord
            /\ ~(Rendered /\ drugCard.call.id = c.id))
    /\ [][(drugCard' # drugCard /\ drugCard'.kind = "full"
            /\ drugCard'.call.local = NoRecord) =>
            /\ \E c \in inflight :
                  /\ c.id = drugCard'.call.id
                  /\ c.pc \in {"event", "eventJson"}
                  /\ c.labelRes \in {"failed", "ok"}
            /\ drugCard'.call.labelRes \in {"failed", "ok"}
            /\ drugCard'.call.eventRes \in {"failed", "ok"}
            /\ \A c \in inflight' : c.id # drugCard'.call.id]_vars

\* both queries answered, then the merged record rendered with both results
C16_Witness ==
    /\ Rendered
    /\ drugCard.call.local = NoRecord
    /\ drugCard.call.labelRes = "ok" /\ drugCard.call.eventRes = "ok"
    /\ drugCard.d.uses_official # <<>> /\ drugCard.d.adrs_reported # <<>>
    /\ inflight = {}

(***************************************************************************)
(* ADR reporting: the submit handler, reset, export, clear, history.       *)
(***************************************************************************)
\* Number(document.getElementById('p_amount_mg').value || 0): a number or NaN;
\* "null" is what JSON.stringify leaves of NaN
Num(n) == [t |-> "num", n |-> n]
NaN == [t |-> "nan", n |-> 0]
JsonNull == [t |-> "null", n |-> 0]
AmountInputs == {Num(0), Num(-1), Num(3000), Num(5000), NaN}

\* the truthiness of amountMg: neither 0 nor NaN
AmountTruthy(a) == a.t = "num" /\ a.n # 0

X == <<"x">>
Form(patientName, age, gender, phone, condition, severity, description) ==
    [patientName |-> patientName, age |-> age, gender |-> gender, phone |-> phone,
     condition |-> condition, severity |-> severity, description |-> description]
RequiredFields == {"patientName", "age", "gender", "condition", "severity", "description"}
FilledForm == Form(X, X, X, <<>>, X, X, X)
\* what the user has typed: everything, one required field left empty or
\* blank, or nothing
FormFills ==
    {FilledForm, Form(<<>>, <<>>, <<>>, <<>>, <<>>, <<>>, <<>>)}
    \cup {[FilledForm EXCEPT ![f] = <<>>] : f \in RequiredFields}
    \cup {[FilledForm EXCEPT ![f] = <<" ">>] : f \in {"patientName", "description"}}

\* the validation checking the patient name only
MissingRequired_NameOnly(form) == trim(form.patientName) = <<>>

\* the if of the submit handler: a required field is empty after trim()
MissingRequired(form) == \E f \in RequiredFields : trim(form[f]) = <<>>

\* the dose check with the lookup of fetchAndRenderDrug (exact, then substring)
EvaluateDose_Fuzzy(idx, drug, amountMg) ==
    LET local == LocalLookup(idx, drug)
    IN  /\ local # NoRecord
        /\ local[1].maxDoseMg # 0
        /\ AmountTruthy(amountMg)
        /\ amountMg.n > local[1].maxDoseMg

\* report.highDose: drapIndex[report.drug.toLowerCase()], exact key only
EvaluateDose(idx, drug, amountMg) ==
    LET local == IndexGet(idx, toLowerCase(drug))
    IN  /\ local # NoRecord
        /\ local[1].maxDoseMg # 0
        /\ AmountTruthy(amountMg)
        /\ amountMg.n > local[1].maxDoseMg

\* the report object of the submit handler, at time t
Report(t, form, amountMg) ==
    LET drug == Or(DrugTitle(drugCard), Or(lastParsed.name, sUnknown))
    IN  [id |-> t,
         drug |-> drug,
         batch |-> Or(pBatch, lastParsed.batch),
         patientName |-> trim(form.patientName),
         age |-> trim(form.age),
         gender |-> trim(form.gender),
         phone |-> trim(form.phone),
         condition |-> trim(form.condition),
         severity |-> trim(form.severity),
         amountMg |-> amountMg,
         description |-> trim(form.description),
         date |-> t,
         highDose |-> EvaluateDose(drapIndex, drug, amountMg)]

\* what JSON.parse gives back of JSON.stringify(report)
JsonReport(r) == [r EXCEPT !.amountMg = IF r.amountMg.t = "nan" THEN JsonNull ELSE r.amountMg]

\* the log replaced by the new report instead of extended by it
AppendReport_Overwrite(arr, report) == <<JsonReport(report)>>

\* arr.push(report); localStorage.setItem(STORAGE_KEY, JSON.stringify(arr))
AppendReport(arr, report) ==
    [i \in 1..(Len(arr) + 1) |-> JsonReport(IF i <= Len(arr) THEN arr[i] ELSE report)]

ReportUnchanged ==
    UNCHANGED <<file, loadPc, drapIndex, currentStream, scanning, camera, lastParsed, nextId,
                inflight, drugCard, doseWarning, probe>>

\* reportForm submit, the clock reading t
Submit(form, amountMg, t) ==
    /\ Len(storage) < MaxReports
    /\ t <= MaxClock
    /\ ReportUnchanged
    /\ IF MissingRequired(form)
       THEN /\ lastOutput' = "Please fill required fields."
            /\ UNCHANGED <<storage, pBatch, historyList, now>>
       ELSE /\ storage' = AppendReport(storage, Report(t, form, amountMg))
            /\ now' = t
            /\ pBatch' = <<>>
            /\ historyList' = renderHistory(storage')
            /\ UNCHANGED <<lastOutput>>

\* #btnReset click: reportForm.reset()
BtnReset ==
    /\ pBatch' = <<>>
    /\ ReportUnchanged
    /\ UNCHANGED <<storage, now, historyList, lastOutput>>

\* btnExport click
Export ==
    /\ lastOutput' = "mediscan_reports.json"
    /\ ReportUnchanged
    /\ UNCHANGED <<storage, now, historyList, pBatch>>

\* btnClearAll click, confirm() answered yes
ClearAll ==
    /\ storage' = <<>>
    /\ historyList' = renderHistory(<<>>)
    /\ ReportUnchanged
    /\ UNCHANGED <<now, lastOutput, pBatch>>

\* btnClearAll click, confirm() answered no: return
ClearAllDeclined == UNCHANGED vars

\* viewReportDetail(id), from the View button of an entry of the history
ViewReport(id) ==
    /\ id \in {historyList[i].id : i \in 1..Len(historyList)}
    /\ lastOutput' = IF \E i \in 1..Len(storage) : storage[i].id = id
                    THEN "Report for" ELSE "Report not found"
    /\ ReportUnchanged
    /\ UNCHANGED <<storage, now, historyList, pBatch>>

\* a report kept from an earlier session
OldReport ==
    [id |-> 0, drug |-> sPanadol, batch |-> <<>>, patientName |-> X, age |-> X,
     gender |-> X, phone |-> <<>>, condition |-> X, severity |-> X,
     amountMg |-> Num(5000), description |-> X, date |-> 0, highDose |-> TRUE]

InitReport ==
    /\ file = PharmacyFile
    /\ storage \in {<<>>, <<OldReport>>}
    /\ InitCommon

\* the resolution with the fallback service unreachable, for the texts given
ResolveOffline(texts) ==
    \/ \E text \in texts : nextId < MaxReportCalls /\ Search(text)
    \/ \E c \in inflight : LabelReject(c)
    \/ \E c \in inflight : EventReject(c)

Reporting ==
    \* the amount typed is no number: Number() gives NaN, stored as null
    \/ \E t \in {now, now + 1} : Submit(FilledForm, NaN, t)
    \* the validation reads neither the amount nor the clock
    \/ \E form \in FormFills \ {FilledForm} : Submit(form, NaN, now)
    \/ BtnReset
    \/ Export
    \/ ClearAll
    \/ ClearAllDeclined
    \/ \E id \in 0..MaxReports : ViewReport(id)

NextReport == Load \/ ResolveOffline({rawJsonBrufen}) \/ Reporting

SpecReport == InitReport /\ [][NextReport]_vars

\* the dose check over every amount, for complete forms
Dosing ==
    \E a \in AmountInputs : Len(storage) < MaxDoseReports /\ Submit(FilledForm, a, now)

NextDose ==
    Load \/ ResolveOffline({sPANADOL, sParacet, rawJsonBrufen}) \/ Dosing

InitDose ==
    /\ file \in {PanadolFile, PharmacyFile}
    /\ storage = <<>>
    /\ InitCommon

SpecDose == InitDose /\ [][NextDose]_vars

(***************************************************************************)
(* Claims about the local lookup (SpecLookup).                             *)
(***************************************************************************)
\* the substring phase as the specification words it, for the entry e
C3_SpecHit(e, lname) ==
    \/ includes(lname, e.k)
    \/ \E i \in 1..Len(e.d.synonyms) : includes(toLowerCase(e.d.synonyms[i]), lname)

\* C3: for a name that is no exact key, the lookup returns the first record, in
\* insertion order of the index, whose key is a substring of the lowercased
\* name or one of whose synonyms contains the lowercased name, and null exactly
\* when there is no such key.
C3_SubstringLookup ==
    LET lname == toLowerCase(probe.name)
        hits  == {i \in 1..Len(drapIndex) : C3_SpecHit(drapIndex[i], lname)}
    IN  (probe # NoProbe /\ IndexGet(drapIndex, lname) = NoRecord) =>
            probe.result = IF hits = {} THEN NoRecord
                           ELSE <<drapIndex[CHOOSE i \in hits : \A j \in hits : i <= j].d>>

\* C11: whenever the lowercased name is a key of the index, the lookup returns
\* the record under that key, also when an entry that comes earlier in the
\* iteration order of the index satisfies the substring phase with another
\* record.
C11_ExactKeyFirst ==
    (probe # NoProbe /\ HasKey(drapIndex, toLowerCase(probe.name))) =>
        probe.result = IndexGet(drapIndex, toLowerCase(probe.name))

\* the name is a key, and the first entry the substring loop would take holds
\* a different record
C11_Witness ==
    /\ probe # NoProbe
    /\ HasKey(drapIndex, toLowerCase(probe.name))
    /\ probe.result = IndexGet(drapIndex, toLowerCase(probe.name))
    /\ LET ord  == ForInOrder(drapIndex)
           hits == {i \in 1..Len(ord) : SubstringHit(ord[i], toLowerCase(probe.name))}
       IN  /\ hits # {}
           /\ <<ord[CHOOSE i \in hits : \A j \in hits : i <= j].d>> # probe.result

(***************************************************************************)
(* Claims about the reports (SpecDose, SpecReport).                        *)
(***************************************************************************)
\* the record of the index under the exact key of the report's drug
C4_Exact(r) == IndexGet(drapIndex, toLowerCase(r.drug))

\* C4: the report stored by a submission has highDose exactly when its drug
\* name, lowercased, is an exact key of the index, the record under that key
\* has a maximum dose, and amountMg is a positive number above that maximum.
C4_HighDoseExactKeyOnly ==
    [][Len(storage') = Len(storage) + 1 =>
        LET r == storage'[Len(storage')]
        IN  r.highDose <=> /\ C4_Exact(r) # NoRecord
                           /\ C4_Exact(r)[1].maxDoseMg > 0
                           /\ r.amountMg.t = "num"
                           /\ r.amountMg.n > 0
                           /\ r.amountMg.n > C4_Exact(r)[1].maxDoseMg]_vars

\* a report flagged through a key that differs from the typed name in case only
C4_Witness ==
    \E i \in 1..Len(storage) :
        /\ storage[i].drug = sPANADOL
        /\ storage[i].highDose
        /\ storage[i].amountMg = Num(5000)

\* C9: a submission with an empty required field writes nothing: the step that
\* raises the validation alert leaves the log and the history as they were, and
\* no report with an empty required field is ever in the log.
C9_RejectedBeforeWrite ==
    /\ [](\A i \in 1..Len(storage) : \A f \in RequiredFields : storage[i][f] # <<>>)
    /\ [][lastOutput' = "Please fill required fields." /\ lastOutput' # lastOutput =>
            storage' = storage /\ historyList' = historyList /\ pBatch' = pBatch]_vars

\* a submission was rejected while the log already held a report
C9_Witness ==
    /\ lastOutput = "Please fill required fields."
    /\ storage # <<>>

\* C10: every step leaves the log unchanged, or extends it by exactly one
\* report at the end with the earlier entries as they were, or empties it.
C10_AppendOnly ==
    [][\/ storage' = storage
       \/ storage' = <<>>
       \/ /\ Len(storage') = Len(storage) + 1
          /\ SubSeq(storage', 1, Len(storage)) = storage]_vars

\* a report appended behind an earlier one
C10_Witness ==
    /\ Len(storage) >= 2
    /\ storage[1] = OldReport
    /\ storage[2].id > 0

(***************************************************************************)
(* parsePayload applied directly, over generated payloads (SpecParse).     *)
(***************************************************************************)
kCode == <<"c","o","d","e">>
sLowerLot == <<"(","1","0",")","a","b">>
sShortExpiry == <<"(","1","7",")","2","6">>
sLot == <<"(","1","0",")","A","B">>
sExp == <<"(","1","7",")","2","6","1","2","3","1">>

\* the text "k":"v" of one member, and the text of an object of such members
MemberText(k, v) == <<Quote>> \o k \o <<Quote, ":", Quote>> \o v \o <<Quote>>
ObjectText(ms) == <<"{">> \o join(ms, <<",">>) \o <<"}">>

FieldPool ==
    {MemberText(kDrugName, sBrufen), MemberText(kName, sPanadol), MemberText(kName, <<>>),
     MemberText(kProductName, sIbu), MemberText(kBatch, sB7), MemberText(kLot, sL1),
     MemberText(kExpiry, s2027), MemberText(kCode, rawGs1)}
SegmentPool == {sLot, sExp, sLowerLot, sShortExpiry, <<"x">>, <<" ">>}

\* objects of up to MaxFields members, the same cut short of the closing
\* brace, and texts of up to MaxSegments segments (the empty string among them)
ObjectPayloads == {ObjectText(ms) : ms \in SeqsUpTo(FieldPool, MaxFields)}
CutPayloads == {SubSeq(t, 1, Len(t) - 1) : t \in ObjectPayloads}
SegmentPayloads == {join(ss, <<>>) : ss \in SeqsUpTo(SegmentPool, MaxSegments)}
Payloads == ObjectPayloads \cup CutPayloads \cup SegmentPayloads

InitParse ==
    /\ file = EmptyFile
    /\ storage = <<>>
    /\ InitCommon

\* parsePayload(raw), applied once to the payload
ParseProbe(raw) ==
    /\ probe = NoProbe
    /\ probe' = [name |-> raw, result |-> <<parsePayload(raw)>>]
    /\ UNCHANGED <<file, loadPc, drapIndex, currentStream, scanning, camera, lastParsed, nextId,
                   inflight, drugCard, doseWarning, pBatch, storage, now, historyList,
                   lastOutput>>

NextParse == \E raw \in Payloads : ParseProbe(raw)

SpecParse == InitParse /\ [][NextParse]_vars

(***************************************************************************)
(* Claims about parsePayload (SpecParse).                                  *)
(***************************************************************************)
\* the first non-empty of the fields drugName, name, productName of the object
\* the text decodes to; empty when it does not decode or has none
C12_NameField(raw) ==
    LET o == JSONparse(raw) IN
    IF ~o.ok THEN <<>>
    ELSE IF Member(o, kDrugName) # <<>> THEN Member(o, kDrugName)
    ELSE IF Member(o, kName) # <<>> THEN Member(o, kName)
    ELSE Member(o, kProductName)

\* C12: for a payload that decodes as an object with a non-empty drugName, name
\* or productName the candidate's name is that field and its batch and expiry
\* are the object's batch|lot and expiry fields, the segment patterns not being
\* applied; for every other payload the name is the full raw string.
C12_ParsedName ==
    Len(probe.result) = 1 =>
        LET raw == probe.name
            out == probe.result[1]
            o   == JSONparse(raw)
        IN  IF C12_NameField(raw) # <<>>
            THEN /\ out.name = C12_NameField(raw)
                 /\ out.batch = (IF Member(o, kBatch) # <<>> THEN Member(o, kBatch)
                                 ELSE Member(o, kLot))
                 /\ out.expiry = Member(o, kExpiry)
            ELSE out.name = raw

\* a named object whose text carries both segments: neither is extracted
C12_Witness ==
    /\ Len(probe.result) = 1
    /\ C12_NameField(probe.name) = sPanadol
    /\ Match10(probe.name) # <<>> \/ Match17(probe.name) # <<>>
    /\ probe.result[1] = Candidate(sPanadol, <<>>, <<>>)

\* an object without a name, and a text that is no object: the name is the text
C12_WitnessRaw ==
    /\ Len(probe.result) = 1
    /\ probe.name \in {ObjectText(<<MemberText(kBatch, sB7)>>), rawGs1, <<>>}
    /\ probe.result[1].name = probe.name

\* C14: when parsePayload does not return on the structured path, a raw string
\* without a (10) segment gives an empty batch and one without a (17) six-digit
\* segment gives an empty expiry, also when the raw string decodes as an object
\* that has no name field.
C14_SegmentsOnly ==
    (Len(probe.result) = 1 /\ C12_NameField(probe.name) = <<>>) =>
        /\ Match10(probe.name) = <<>> => probe.result[1].batch = <<>>
        /\ Match17(probe.name) = <<>> => probe.result[1].expiry = <<>>

(***************************************************************************)
(* The load over small datasets whose names and synonyms collide           *)
(* (SpecBuild).                                                            *)
(***************************************************************************)
BuildNames == {<<"a">>, <<"B">>}
BuildSynonyms == {<<"A">>, <<"b">>}
BuildRecords ==
    {DrugRecord(n, <<>>, <<>>, <<>>, <<>>, <<>>, <<>>, 0, syns) :
        n \in BuildNames, syns \in SeqsUpTo(BuildSynonyms, MaxSynonyms)}
BuildFiles == SeqsUpTo(BuildRecords, MaxRecords)

InitBuild ==
    /\ file \in BuildFiles
    /\ storage = <<>>
    /\ InitCommon

SpecBuild == InitBuild /\ [][Load]_vars

\* C15: in the index built from a dataset no key occurs twice, and a key that
\* is the lowercased name of some record maps to the last record of the
\* dataset that has this name, never to a record that only lists the key as a
\* synonym.
C15_SynonymNeverOverridesName ==
    loadPc = "done" =>
        /\ \A i, j \in 1..Len(drapIndex) : drapIndex[i].k = drapIndex[j].k => i = j
        /\ \A i \in 1..Len(drapIndex) :
              LET named == {n \in 1..Len(file) :
                               toLowerCase(file[n].name) = drapIndex[i].k}
              IN  named # {} =>
                      drapIndex[i].d = file[CHOOSE n \in named : \A m \in named : m <= n]

(***************************************************************************)
(* The camera: startCamera, handleStream, stopCamera, scanLoop and the     *)
(* resume timer scanLoop sets when a code was handled (SpecCamera).        *)
(***************************************************************************)
CameraUnchanged ==
    UNCHANGED <<file, loadPc, drapIndex, lastParsed, nextId, inflight, drugCard,
                doseWarning, pBatch, storage, now, historyList, probe>>

\* #btnStart click: startCamera up to its first await
BtnStartClick ==
    /\ camera.btnStart
    /\ camera.clicks < MaxClicks
    /\ camera' = IF currentStream # 0 THEN [camera EXCEPT !.clicks = @ + 1]
                 ELSE [camera EXCEPT !.clicks = @ + 1, !.starting = @ + 1]
    /\ UNCHANGED <<currentStream, scanning, lastOutput>>
    /\ CameraUnchanged

\* getUserMedia resolves for one of the three constraints: handleStream(stream),
\* whose scanLoop() call finds no video data yet and requests a frame
GetUserMediaResolves ==
    /\ camera.starting > 0
    /\ currentStream' = camera.streams + 1
    /\ scanning' = TRUE
    /\ camera' = [camera EXCEPT !.starting = @ - 1, !.streams = @ + 1,
                                !.live = @ \cup {camera.streams + 1},
                                !.frames = @ + 1,
                                !.btnStart = FALSE, !.btnStop = TRUE]
    /\ UNCHANGED lastOutput
    /\ CameraUnchanged

\* getUserMedia rejects for all three constraints: throw, catch, alert
GetUserMediaRejects ==
    /\ camera.starting > 0
    /\ camera' = [camera EXCEPT !.starting = @ - 1]
    /\ lastOutput' = "Camera access failed"
    /\ UNCHANGED <<currentStream, scanning>>
    /\ CameraUnchanged

\* #btnStop click: stopCamera
BtnStopClick ==
    /\ camera.btnStop
    /\ camera.clicks < MaxClicks
    /\ scanning' = FALSE
    /\ currentStream' = 0
    /\ camera' = [Stopped(camera) EXCEPT !.clicks = @ + 1]
    /\ UNCHANGED lastOutput
    /\ CameraUnchanged

\* a frame callback runs scanLoop: if(!scanning) return
ScanLoopReturns ==
    /\ camera.frames > 0
    /\ ~scanning
    /\ camera' = [camera EXCEPT !.frames = @ - 1]
    /\ UNCHANGED <<currentStream, scanning, lastOutput>>
    /\ CameraUnchanged

\* a frame callback runs scanLoop: no data or no code, requestAnimationFrame(scanLoop)
ScanLoopNoCode ==
    /\ camera.frames > 0
    /\ scanning
    /\ UNCHANGED vars

\* a frame callback runs scanLoop and jsQR finds a code in the frame of the
\* stream shown: scanning = false, handleScanned(code.data.trim()).then(...)
ScanLoopDecodes(raw) ==
    /\ camera.frames > 0
    /\ scanning
    /\ currentStream # 0
    /\ nextId < MaxScans
    /\ HandleScanned(raw, [camera EXCEPT !.frames = @ - 1], TRUE)

\* the timer set by scanLoop's .then callback: if(!scanning){ scanning = true; scanLoop(); }
ResumeTimer ==
    /\ camera.timers > 0
    /\ IF ~scanning
       THEN /\ scanning' = TRUE
            /\ camera' = [camera EXCEPT !.timers = @ - 1, !.frames = @ + 1]
       ELSE /\ camera' = [camera EXCEPT !.timers = @ - 1]
            /\ UNCHANGED scanning
    /\ UNCHANGED <<currentStream, lastOutput>>
    /\ CameraUnchanged

\* what the codes in front of the camera carry
ScannedCodes == {sPANADOL, sAmoxicillin}

Camera ==
    \/ BtnStartClick
    \/ GetUserMediaResolves
    \/ GetUserMediaRejects
    \/ BtnStopClick
    \/ ScanLoopReturns
    \/ ScanLoopNoCode
    \/ \E raw \in ScannedCodes : ScanLoopDecodes(raw)
    \/ ResumeTimer

InitCamera ==
    /\ file = PanadolFile
    /\ storage = <<>>
    /\ InitCommon

NextCamera ==
    \/ Load
    \/ Camera
    \/ \E c \in inflight : LabelReject(c)
    \/ \E c \in inflight : EventReject(c)

SpecCamera == InitCamera /\ [][NextCamera]_vars

(***************************************************************************)
(* Claims about the camera (SpecCamera).                                   *)
(***************************************************************************)
\* C17: at any time at most one stream has live tracks and at most one scanLoop
\* callback is scheduled, whatever the order of Start clicks, Stop clicks,
\* getUserMedia completions and frame callbacks.
C17_OneStreamOneLoop ==
    /\ Cardinality(camera.live) <= 1
    /\ camera.frames <= 1

\* C18: scanning is true only while a camera stream is held; the scan loop is
\* not resumed after a handled code unless the camera was started again.
C18_ScanningImpliesStream == scanning => currentStream # 0

(***************************************************************************)
(* Claims about the dose check against the record displayed (SpecDose).    *)
(***************************************************************************)
\* C19: when the merged record displayed carries a maximum dose M, the banner
\* being shown, a report stored by a submission with an amount above M has
\* highDose set, however the record was found (exact key, synonym key or
\* substring match).
C19_DisplayedMaxDoseFlags ==
    [][(/\ Len(storage') = Len(storage) + 1
        /\ drugCard.kind = "full"
        /\ drugCard.d.maxDoseMg > 0
        /\ doseWarning = drugCard.d.maxDoseMg
        /\ storage'[Len(storage')].amountMg.t = "num"
        /\ storage'[Len(storage')].amountMg.n > drugCard.d.maxDoseMg) =>
            storage'[Len(storage')].highDose]_vars

(***************************************************************************)
(* Claims about the load and the handlers bound beside it (SpecSingle).    *)
(***************************************************************************)
\* C20: no resolution reads the index while loadDrapLocal is still in progress
\* in a way that shows: a name that the dataset's index resolves is never a
\* local miss of a resolution started before the load settled; and once the
\* load has settled the index is not written again.
C20_NoReadBeforeLoadSettled ==
    /\ [](\A c \in Calls :
            (c.name # <<>> /\ ~c.loaded /\ c.local = NoRecord) =>
                LocalLookup(Indexed(file), c.name) = NoRecord)
    /\ [][loadPc = "done" => drapIndex' = drapIndex]_vars

====
